---- MODULE Spec2Model ----
(***************************************************************************)
(* Model of the helper scripts of FinSTATA:                                *)
(*   helpers/cusip_cleaner.py   clean_cusip, clean_cusip_file, __main__    *)
(*   helpers/data_validator.py  validate_event_study_data                  *)
(*                                                                         *)
(* A Python string is a sequence of one-character strings.  The absent     *)
(* value (None / NaN) is the one-element tuple <<"None">>, which is no     *)
(* string over any character set because "None" is not one character.      *)
(***************************************************************************)
EXTENDS Integers, Sequences, FiniteSets, TLC

VARIABLES
    \* clean_cusip
    raw,        \* the argument cusip_str of the call
    result,     \* the value the call returned
    again,      \* the value clean_cusip returned on its own result
    pc,         \* position of the caller of clean_cusip
    other,      \* a second raw string, compared with raw
    result2,    \* the value clean_cusip returned for other
    \* clean_cusip_file and __main__
    file_columns,   \* header of the input file
    file_rows,      \* records of the input file, in order
    f_pc,           \* position in clean_cusip_file / __main__
    columns,        \* df.columns
    df,             \* rows of df: [index |-> label, rec |-> record]
    printed,        \* what was printed
    out_written,    \* output_file was written
    out_columns,    \* header of the output file
    out_rows,       \* records of the output file
    ret,            \* return value of clean_cusip_file
    propagated,     \* exception leaving clean_cusip_file
    exit_status,    \* exit status of the script
    \* validate_event_study_data
    data_columns,   \* df.columns of the dataset, in order
    data_rows,      \* rows of the dataset
    v_pc,           \* position in validate_event_study_data
    date_cols,      \* the local date_cols
    id_cols,        \* the local id_cols
    duplicates,     \* the local duplicates: <<>> while unbound, <<n>> once assigned
    report,         \* lines written to the validation report so far
    report_complete,\* the with-block of lines 127-144 ended normally
    v_ret           \* return value of validate_event_study_data

vars == <<raw, result, again, pc, other, result2,
          file_columns, file_rows, f_pc, columns, df, printed, out_written,
          out_columns, out_rows, ret, propagated, exit_status,
          data_columns, data_rows, v_pc, date_cols, id_cols, duplicates,
          report, report_complete, v_ret>>
cleanVars == <<raw, result, again, pc, other, result2>>
fileVars == <<file_columns, file_rows, f_pc, columns, df,
              printed, out_written, out_columns, out_rows, ret, propagated,
              exit_status>>
validVars == <<data_columns, data_rows, v_pc, date_cols, id_cols, duplicates,
               report, report_complete, v_ret>>

(***************************************************************************)
(* Bounds of the model                                                     *)
(***************************************************************************)
\* longest raw string drawn from the full input alphabet
MaxLen == 7
\* longest raw string drawn from the alphanumeric part of the alphabet
MaxAlnumLen == 10
\* longest raw string of which a variant is compared with it
MaxPairLen == 9
\* most records in an input file
MaxRows == 3
\* most rows in a dataset given to the validator
MaxDataRows == 2

(***************************************************************************)
(* Characters                                                              *)
(***************************************************************************)
None == <<"None">>

UpperSeq == <<"A","B","C","D","E","F","G","H","I","J","K","L","M",
              "N","O","P","Q","R","S","T","U","V","W","X","Y","Z">>
LowerSeq == <<"a","b","c","d","e","f","g","h","i","j","k","l","m",
              "n","o","p","q","r","s","t","u","v","w","x","y","z">>
Digits == {"0","1","2","3","4","5","6","7","8","9"}
UpperLetters == {UpperSeq[i] : i \in DOMAIN UpperSeq}

\* the characters str.strip() removes at both ends
Whitespace == {" ", "\t", "\n", "\r"}

\* the character class [A-Z0-9] of the regular expression
AZ09 == UpperLetters \cup Digits

\* the characters raw strings are drawn from (ASCII): an upper-case letter,
\* a lower-case letter, a digit, a whitespace and a punctuation character
AlnumAlphabet == {"A", "b", "0"}
Alphabet == AlnumAlphabet \cup {" ", "-"}

\* str.upper() on one character
UpperChar(c) ==
    IF \E i \in DOMAIN LowerSeq : LowerSeq[i] = c
    THEN UpperSeq[CHOOSE i \in DOMAIN LowerSeq : LowerSeq[i] = c]
    ELSE c

\* str.upper() left out
UpperOmitted(s) == s

\* str.upper()
Upper(s) == [i \in DOMAIN s |-> UpperChar(s[i])]

RECURSIVE LStrip(_)
LStrip(s) ==
    IF s # <<>> /\ Head(s) \in Whitespace THEN LStrip(Tail(s)) ELSE s

RECURSIVE RStrip(_)
RStrip(s) ==
    IF s # <<>> /\ s[Len(s)] \in Whitespace
    THEN RStrip(SubSeq(s, 1, Len(s) - 1))
    ELSE s

\* str.strip()
Strip(s) == RStrip(LStrip(s))

\* re.sub(r'[^A-Z0-9]', '', s)
RECURSIVE ReSub(_)
ReSub(s) ==
    IF s = <<>> THEN <<>>
    ELSE IF Head(s) \in AZ09 THEN <<Head(s)>> \o ReSub(Tail(s))
    ELSE ReSub(Tail(s))

\* s[:n]
Prefix(s, n) == SubSeq(s, 1, IF Len(s) < n THEN Len(s) ELSE n)

\* pd.isna(x) or x == ''
IsMissing(x) == x = None \/ x = <<>>

\* lines 16-17: the cleaned form of a raw string
Cleaned(s) == ReSub(Upper(Strip(s)))

\* the length test of line 19 against 5 instead of 6
StandardizeShortAccepted(c) ==
    IF Len(c) < 5 THEN None
    ELSE IF Len(c) = 6 THEN c \o <<"0", "0">>
    ELSE IF Len(c) = 7 THEN c \o <<"0">>
    ELSE IF Len(c) = 8 THEN c
    ELSE Prefix(c, 8)

\* lines 23 and 25 padding on the left
StandardizePadLeft(c) ==
    IF Len(c) < 6 THEN None
    ELSE IF Len(c) = 6 THEN <<"0", "0">> \o c
    ELSE IF Len(c) = 7 THEN <<"0">> \o c
    ELSE IF Len(c) = 8 THEN c
    ELSE Prefix(c, 8)

\* line 31 without the slice: only a 9-character string is cut
StandardizeLongKept(c) ==
    IF Len(c) < 6 THEN None
    ELSE IF Len(c) = 6 THEN c \o <<"0", "0">>
    ELSE IF Len(c) = 7 THEN c \o <<"0">>
    ELSE IF Len(c) = 8 THEN c
    ELSE IF Len(c) = 9 THEN Prefix(c, 8)
    ELSE c

\* line 29 keeping the last 8 characters of a 9-character string
StandardizeKeepTail(c) ==
    IF Len(c) < 6 THEN None
    ELSE IF Len(c) = 6 THEN c \o <<"0", "0">>
    ELSE IF Len(c) = 7 THEN c \o <<"0">>
    ELSE IF Len(c) = 8 THEN c
    ELSE IF Len(c) = 9 THEN SubSeq(c, 2, 9)
    ELSE Prefix(c, 8)

\* padding to 9 characters, the length of a full CUSIP
StandardizePadNine(c) ==
    IF Len(c) < 6 THEN None
    ELSE IF Len(c) = 6 THEN c \o <<"0", "0", "0">>
    ELSE IF Len(c) = 7 THEN c \o <<"0", "0">>
    ELSE IF Len(c) = 8 THEN c \o <<"0">>
    ELSE Prefix(c, 8)

\* lines 19-33: the result for a cleaned string
Standardize(c) ==
    IF Len(c) < 6 THEN None
    ELSE IF Len(c) = 6 THEN c \o <<"0", "0">>
    ELSE IF Len(c) = 7 THEN c \o <<"0">>
    ELSE IF Len(c) = 8 THEN c
    ELSE IF Len(c) = 9 THEN Prefix(c, 8)
    ELSE Prefix(c, 8)

clean_cusip(cusip_str) ==
    IF IsMissing(cusip_str) THEN None
    ELSE Standardize(Cleaned(cusip_str))

(***************************************************************************)
(* Each specification runs one part of the model and leaves the others at  *)
(* rest                                                                    *)
(***************************************************************************)
\* the specifications of clean_cusip leave the file model at rest
FileIdle ==
    /\ file_columns = {}
    /\ file_rows = <<>>
    /\ f_pc = "idle"
    /\ columns = {}
    /\ df = <<>>
    /\ printed = <<>>
    /\ out_written = FALSE
    /\ out_columns = {}
    /\ out_rows = <<>>
    /\ ret = "None"
    /\ propagated = "none"
    /\ exit_status = -1

\* the other specifications leave the validator at rest
ValidIdle ==
    /\ data_columns = <<>>
    /\ data_rows = <<>>
    /\ v_pc = "idle"
    /\ date_cols = <<>>
    /\ id_cols = <<>>
    /\ duplicates = <<>>
    /\ report = <<>>
    /\ report_complete = FALSE
    /\ v_ret = "None"

\* the specification of clean_cusip_file leaves the callers of clean_cusip at rest
CleanIdle ==
    /\ raw = None
    /\ result = None
    /\ again = None
    /\ other = None
    /\ result2 = None
    /\ pc = "idle"

(***************************************************************************)
(* Inputs of clean_cusip                                                   *)
(***************************************************************************)
CleanInit ==
    /\ \/ raw = None
       \/ \E k \in 0..MaxLen : raw \in [1..k -> Alphabet]
       \/ \E k \in 0..MaxAlnumLen : raw \in [1..k -> AlnumAlphabet]
    /\ result = None
    /\ again = None
    /\ other = None
    /\ result2 = None
    /\ pc = "start"
    /\ FileIdle
    /\ ValidIdle

\* result = clean_cusip(raw); for None and for a str no statement of lines
\* 13-33 raises, so the call always returns
CallCleanCusip ==
    /\ pc = "start"
    /\ result' = clean_cusip(raw)
    /\ pc' = "returned"
    /\ UNCHANGED <<raw, again, other, result2>>
    /\ UNCHANGED <<fileVars, validVars>>

\* again = clean_cusip(result), for a result that is not absent
ReapplyCleanCusip ==
    /\ pc = "returned"
    /\ result # None
    /\ again' = clean_cusip(result)
    /\ pc' = "reapplied"
    /\ UNCHANGED <<raw, result, other, result2>>
    /\ UNCHANGED <<fileVars, validVars>>

CleanNext == CallCleanCusip \/ ReapplyCleanCusip

SpecClean == CleanInit /\ [][CleanNext]_vars

(***************************************************************************)
(* Pairs of inputs of clean_cusip: raw, and other = raw changed in one     *)
(* place (the case of a letter, a whitespace at an end, a character        *)
(* outside A-Z0-9 in the interior)                                         *)
(***************************************************************************)
SwapCase(c) ==
    IF \E i \in DOMAIN LowerSeq : LowerSeq[i] = c
    THEN UpperSeq[CHOOSE i \in DOMAIN LowerSeq : LowerSeq[i] = c]
    ELSE IF \E i \in DOMAIN UpperSeq : UpperSeq[i] = c
    THEN LowerSeq[CHOOSE i \in DOMAIN UpperSeq : UpperSeq[i] = c]
    ELSE c

InsertAt(s, i, c) == SubSeq(s, 1, i) \o <<c>> \o SubSeq(s, i + 1, Len(s))

PairInit ==
    /\ \E k \in 0..MaxPairLen : raw \in [1..k -> AlnumAlphabet]
    /\ other = None
    /\ result = None
    /\ result2 = None
    /\ again = None
    /\ pc = "start"
    /\ FileIdle
    /\ ValidIdle

\* clean_cusip is called on raw and on other
CalledOnBoth ==
    /\ result' = clean_cusip(raw)
    /\ result2' = clean_cusip(other')
    /\ pc' = "compared"
    /\ UNCHANGED <<raw, again>>
    /\ UNCHANGED <<fileVars, validVars>>

\* other differs from raw in the case of one letter
CallOnCaseVariant ==
    /\ pc = "start"
    /\ \E i \in DOMAIN raw :
          /\ SwapCase(raw[i]) # raw[i]
          /\ other' = [raw EXCEPT ![i] = SwapCase(raw[i])]
    /\ CalledOnBoth

\* other is raw after a whitespace character
CallOnLeadingWhitespaceVariant ==
    /\ pc = "start"
    /\ \E w \in {" ", "\t"} : other' = <<w>> \o raw
    /\ CalledOnBoth

\* other is raw before a whitespace character
CallOnTrailingWhitespaceVariant ==
    /\ pc = "start"
    /\ \E w \in {" ", "\n"} : other' = raw \o <<w>>
    /\ CalledOnBoth

\* other is raw with a character outside A-Z0-9 between two of its characters
CallOnInteriorVariant ==
    /\ pc = "start"
    /\ \E i \in 1..(Len(raw) - 1), p \in {"-", " "} :
          other' = InsertAt(raw, i, p)
    /\ CalledOnBoth

PairNext ==
    \/ CallOnCaseVariant
    \/ CallOnLeadingWhitespaceVariant
    \/ CallOnTrailingWhitespaceVariant
    \/ CallOnInteriorVariant

SpecPair == PairInit /\ [][PairNext]_vars

(***************************************************************************)
(* clean_cusip_file and the script's __main__                              *)
(***************************************************************************)
\* headers of input files: two without the column 'cusip' (column names are
\* case-sensitive), one with it, one that also has a column 'cusip_clean'
Headers ==
    {{"name"}, {"name", "CUSIP"}, {"name", "cusip"}, {"cusip", "cusip_clean"}}

\* raw identifiers in the files, among them the three of the deduplication
\* example: AB12340, "ab1234 0", ZZ999999
CusipValues ==
    {None,
     <<"A","B","1","2","3","4","0">>,
     <<"a","b","1","2","3","4"," ","0">>,
     <<"Z","Z","9","9","9","9","9","9">>,
     <<"1","2","-","3","4">>}

ColumnValues(c) ==
    IF c \in {"cusip", "CUSIP"} THEN CusipValues
    ELSE IF c = "cusip_clean" THEN {None, <<"O","L","D">>}
    ELSE {<<"x">>, <<"y">>}

AllValues == UNION {ColumnValues(c) : c \in UNION Headers}

RecordsOver(cols) ==
    {r \in [cols -> AllValues] : \A c \in cols : r[c] \in ColumnValues(c)}

\* df[col] = values, a column added when df has none of that name
SetColumn(rec, col, v) ==
    [c \in (DOMAIN rec) \cup {col} |-> IF c = col THEN v ELSE rec[c]]

\* line 41 assigning the cleaned value to 'cusip' as well
WithCleanColumnInPlace(d) ==
    [i \in DOMAIN d |->
        [d[i] EXCEPT !.rec =
            SetColumn(SetColumn(@, "cusip_clean", clean_cusip(@["cusip"])),
                      "cusip", clean_cusip(@["cusip"]))]]

\* line 41: df['cusip_clean'] = df['cusip'].apply(clean_cusip)
WithCleanColumn(d) ==
    [i \in DOMAIN d |->
        [d[i] EXCEPT !.rec = SetColumn(@, "cusip_clean", clean_cusip(@["cusip"]))]]

NotNaClean(row) == row.rec["cusip_clean"] # None

\* line 42: df.dropna(subset=['cusip_clean'])
DropNaOf(d) == SelectSeq(d, NotNaClean)

RECURSIVE KeepFirst(_, _)
KeepFirst(d, seen) ==
    IF d = <<>> THEN <<>>
    ELSE IF Head(d).rec["cusip_clean"] \in seen THEN KeepFirst(Tail(d), seen)
    ELSE <<Head(d)>> \o KeepFirst(Tail(d), seen \cup {Head(d).rec["cusip_clean"]})

\* line 43 with keep='last'
DropDuplicatesKeepLast(d) ==
    SelectSeq(d, LAMBDA row :
        \A j \in DOMAIN d :
            d[j].rec["cusip_clean"] = row.rec["cusip_clean"] => d[j].index <= row.index)

\* line 43: df.drop_duplicates(subset=['cusip_clean']), keep='first'
DropDuplicatesOf(d) == KeepFirst(d, {})

FileInit ==
    /\ file_columns \in Headers
    /\ \E n \in 0..MaxRows : file_rows \in [1..n -> RecordsOver(file_columns)]
    /\ f_pc = "start"
    /\ columns = {}
    /\ df = <<>>
    /\ printed = <<>>
    /\ out_written = FALSE
    /\ out_columns = {}
    /\ out_rows = <<>>
    /\ ret = "None"
    /\ propagated = "none"
    /\ exit_status = -1
    /\ CleanIdle
    /\ ValidIdle

\* line 38: pd.read_csv succeeds; the rows get the labels 0, 1, 2, ...
ReadCsvOk ==
    /\ f_pc = "start"
    /\ df' = [i \in 1..Len(file_rows) |-> [index |-> i - 1, rec |-> file_rows[i]]]
    /\ columns' = file_columns
    /\ f_pc' = "check"
    /\ UNCHANGED <<file_columns, file_rows, printed, out_written, out_columns,
                   out_rows, ret, propagated, exit_status>>
    /\ UNCHANGED <<cleanVars, validVars>>

\* line 38 raises (no such file, not a CSV); lines 54-56 catch it
ReadCsvFail ==
    /\ f_pc = "start"
    /\ printed' = Append(printed, <<"Error processing CUSIP file">>)
    /\ ret' = "False"
    /\ f_pc' = "returned"
    /\ UNCHANGED <<file_columns, file_rows, columns, df, out_written,
                   out_columns, out_rows, propagated, exit_status>>
    /\ UNCHANGED <<cleanVars, validVars>>

\* lines 46-48 without the return: the message is printed and line 50 is next
NoCusipColumnFallsThrough ==
    /\ f_pc = "check"
    /\ "cusip" \notin columns
    /\ printed' = Append(printed, <<"No 'cusip' column found in input file">>)
    /\ f_pc' = "to_csv"
    /\ UNCHANGED <<file_columns, file_rows, columns, df, out_written,
                   out_columns, out_rows, ret, propagated, exit_status>>
    /\ UNCHANGED <<cleanVars, validVars>>

\* lines 40, 46-48: no column 'cusip'
NoCusipColumn ==
    /\ f_pc = "check"
    /\ "cusip" \notin columns
    /\ printed' = Append(printed, <<"No 'cusip' column found in input file">>)
    /\ ret' = "False"
    /\ f_pc' = "returned"
    /\ UNCHANGED <<file_columns, file_rows, columns, df, out_written,
                   out_columns, out_rows, propagated, exit_status>>
    /\ UNCHANGED <<cleanVars, validVars>>

\* lines 40-41
ApplyCleanCusip ==
    /\ f_pc = "check"
    /\ "cusip" \in columns
    /\ df' = WithCleanColumn(df)
    /\ columns' = columns \cup {"cusip_clean"}
    /\ f_pc' = "dropna"
    /\ UNCHANGED <<file_columns, file_rows, printed, out_written, out_columns,
                   out_rows, ret, propagated, exit_status>>
    /\ UNCHANGED <<cleanVars, validVars>>

\* line 42
DropNa ==
    /\ f_pc = "dropna"
    /\ df' = DropNaOf(df)
    /\ f_pc' = "drop_duplicates"
    /\ UNCHANGED <<file_columns, file_rows, columns, printed, out_written,
                   out_columns, out_rows, ret, propagated, exit_status>>
    /\ UNCHANGED <<cleanVars, validVars>>

\* line 43
DropDuplicates ==
    /\ f_pc = "drop_duplicates"
    /\ df' = DropDuplicatesOf(df)
    /\ f_pc' = "print"
    /\ UNCHANGED <<file_columns, file_rows, columns, printed, out_written,
                   out_columns, out_rows, ret, propagated, exit_status>>
    /\ UNCHANGED <<cleanVars, validVars>>

\* line 45
PrintCount ==
    /\ f_pc = "print"
    /\ printed' = Append(printed, <<"Processed records with clean CUSIPs", Len(df)>>)
    /\ f_pc' = "to_csv"
    /\ UNCHANGED <<file_columns, file_rows, columns, df, out_written,
                   out_columns, out_rows, ret, propagated, exit_status>>
    /\ UNCHANGED <<cleanVars, validVars>>

\* lines 50-52: df.to_csv(output_file, index=False) succeeds
ToCsvOk ==
    /\ f_pc = "to_csv"
    /\ out_written' = TRUE
    /\ out_columns' = columns
    /\ out_rows' = [i \in DOMAIN df |-> df[i].rec]
    /\ printed' = Append(printed, <<"Clean CUSIP file saved">>)
    /\ ret' = "True"
    /\ f_pc' = "returned"
    /\ UNCHANGED <<file_columns, file_rows, columns, df, propagated, exit_status>>
    /\ UNCHANGED <<cleanVars, validVars>>

\* line 50 raises (the output path cannot be written); lines 54-56 catch it
ToCsvFail ==
    /\ f_pc = "to_csv"
    /\ printed' = Append(printed, <<"Error processing CUSIP file">>)
    /\ ret' = "False"
    /\ f_pc' = "returned"
    /\ UNCHANGED <<file_columns, file_rows, columns, df, out_written,
                   out_columns, out_rows, propagated, exit_status>>
    /\ UNCHANGED <<cleanVars, validVars>>

\* lines 66-68: the script ends with status 1 unless clean_cusip_file
\* returned True
MainExit ==
    /\ f_pc = "returned"
    /\ exit_status' = IF ret = "True" THEN 0 ELSE 1
    /\ f_pc' = "exited"
    /\ UNCHANGED <<file_columns, file_rows, columns, df, printed, out_written,
                   out_columns, out_rows, ret, propagated>>
    /\ UNCHANGED <<cleanVars, validVars>>

FileNext ==
    \/ ReadCsvOk
    \/ ReadCsvFail
    \/ NoCusipColumn
    \/ ApplyCleanCusip
    \/ DropNa
    \/ DropDuplicates
    \/ PrintCount
    \/ ToCsvOk
    \/ ToCsvFail
    \/ MainExit

SpecFile == FileInit /\ [][FileNext]_vars

(***************************************************************************)
(* validate_event_study_data                                               *)
(***************************************************************************)
\* column names of the datasets, in file order
DataColumns == <<"firm_id", "event_date", "stock_return", "volume">>

\* line 39: 'date' in col.lower(), on the names of DataColumns
IsDateCol(c) == c = "event_date"

\* line 81: one of 'id', 'permno', 'gvkey', 'cusip' in col.lower(), on the
\* names of DataColumns
IsIdCol(c) == c = "firm_id"

\* a missing value, and the values that are not missing
NaN == "NaN"
CellValues(c) == IF c \in {"firm_id", "event_date"} THEN {NaN, "a", "b"} ELSE {NaN, "a"}

Range(f) == {f[i] : i \in DOMAIN f}

\* the non-empty sub-sequences of DataColumns
ColumnChoices ==
    {SelectSeq(DataColumns, LAMBDA c : c \in S) :
        S \in (SUBSET Range(DataColumns)) \ {{}}}

DataRecords(cols) ==
    {r \in [Range(cols) -> {NaN, "a", "b"}] : \A c \in Range(cols) : r[c] \in CellValues(c)}

\* df[col].nunique(): missing values are not counted
NUnique(rows, c) == Cardinality({rows[i][c] : i \in DOMAIN rows} \ {NaN})

\* df.duplicated(subset=[a, b]).sum(): rows equal to an earlier row on a and b
DuplicatedCount(rows, a, b) ==
    Cardinality({i \in DOMAIN rows :
        \E j \in 1..(i - 1) : rows[j][a] = rows[i][a] /\ rows[j][b] = rows[i][b]})

\* df.isnull().sum(): the columns with at least one missing value
ColumnsWithMissing(rows, cols) ==
    SelectSeq(cols, LAMBDA c : \E i \in DOMAIN rows : rows[i][c] = NaN)

ValidInit ==
    /\ data_columns \in ColumnChoices
    /\ \E n \in 0..MaxDataRows : data_rows \in [1..n -> DataRecords(data_columns)]
    /\ v_pc = "load"
    /\ date_cols = <<>>
    /\ id_cols = <<>>
    /\ duplicates = <<>>
    /\ report = <<>>
    /\ report_complete = FALSE
    /\ v_ret = "None"
    /\ CleanIdle
    /\ FileIdle

\* lines 16-21: pd.read_stata succeeds
LoadOk ==
    /\ v_pc = "load"
    /\ v_pc' = "required"
    /\ UNCHANGED <<data_columns, data_rows, date_cols, id_cols, duplicates,
                   report, report_complete, v_ret>>
    /\ UNCHANGED <<cleanVars, fileVars>>

\* line 17 raises; lines 149-151 catch it
LoadFail ==
    /\ v_pc = "load"
    /\ v_ret' = "False"
    /\ v_pc' = "returned"
    /\ UNCHANGED <<data_columns, data_rows, date_cols, id_cols, duplicates,
                   report, report_complete>>
    /\ UNCHANGED <<cleanVars, fileVars>>

\* lines 23-36: prints only
RequiredVariableCheck ==
    /\ v_pc = "required"
    /\ v_pc' = "dates"
    /\ UNCHANGED <<data_columns, data_rows, date_cols, id_cols, duplicates,
                   report, report_complete, v_ret>>
    /\ UNCHANGED <<cleanVars, fileVars>>

\* lines 38-57
DateValidation ==
    /\ v_pc = "dates"
    /\ date_cols' = SelectSeq(data_columns, IsDateCol)
    /\ v_pc' = "returns"
    /\ UNCHANGED <<data_columns, data_rows, id_cols, duplicates, report,
                   report_complete, v_ret>>
    /\ UNCHANGED <<cleanVars, fileVars>>

\* lines 59-78: prints only
ReturnValidation ==
    /\ v_pc = "returns"
    /\ v_pc' = "ids"
    /\ UNCHANGED <<data_columns, data_rows, date_cols, id_cols, duplicates,
                   report, report_complete, v_ret>>
    /\ UNCHANGED <<cleanVars, fileVars>>

\* line 88 divides by unique_firms for every identifier column
IdDivisionByZero(rows, cols) ==
    \E k \in DOMAIN cols : NUnique(rows, cols[k]) = 0

\* lines 80-95, no identifier column without a value
IdentifierValidation ==
    /\ v_pc = "ids"
    /\ id_cols' = SelectSeq(data_columns, IsIdCol)
    /\ ~IdDivisionByZero(data_rows, id_cols')
    /\ v_pc' = "panel"
    /\ UNCHANGED <<data_columns, data_rows, date_cols, duplicates, report,
                   report_complete, v_ret>>
    /\ UNCHANGED <<cleanVars, fileVars>>

\* lines 80-88: total_obs/unique_firms raises ZeroDivisionError for an
\* identifier column that has no value; lines 149-151 catch it
IdentifierValidationFails ==
    /\ v_pc = "ids"
    /\ id_cols' = SelectSeq(data_columns, IsIdCol)
    /\ IdDivisionByZero(data_rows, id_cols')
    /\ v_ret' = "False"
    /\ v_pc' = "returned"
    /\ UNCHANGED <<data_columns, data_rows, date_cols, duplicates, report,
                   report_complete>>
    /\ UNCHANGED <<cleanVars, fileVars>>

\* lines 97-111 with the condition of line 98 true: duplicates is assigned
PanelStructureValidation ==
    /\ v_pc = "panel"
    /\ Len(id_cols) > 0 /\ Len(date_cols) > 0
    /\ duplicates' = <<DuplicatedCount(data_rows, id_cols[1], date_cols[1])>>
    /\ v_pc' = "completeness"
    /\ UNCHANGED <<data_columns, data_rows, date_cols, id_cols, report,
                   report_complete, v_ret>>
    /\ UNCHANGED <<cleanVars, fileVars>>

\* lines 97-98, 111 with the condition of line 98 false: nothing is assigned
PanelStructureSkipped ==
    /\ v_pc = "panel"
    /\ ~(Len(id_cols) > 0 /\ Len(date_cols) > 0)
    /\ v_pc' = "completeness"
    /\ UNCHANGED <<data_columns, data_rows, date_cols, id_cols, duplicates,
                   report, report_complete, v_ret>>
    /\ UNCHANGED <<cleanVars, fileVars>>

\* lines 113-124: prints only
CompletenessSummary ==
    /\ v_pc = "completeness"
    /\ v_pc' = "open"
    /\ UNCHANGED <<data_columns, data_rows, date_cols, id_cols, duplicates,
                   report, report_complete, v_ret>>
    /\ UNCHANGED <<cleanVars, fileVars>>

\* lines 126-137: the report is opened and its head is written
WriteReportHead ==
    /\ v_pc = "open"
    /\ report' = <<"Data Validation Report", "File", "Validation Date", "Shape",
                   "Data Quality Summary", "Complete variables">>
                 \o (IF Len(id_cols) > 0 THEN <<"Unique firms">> ELSE <<>>)
    /\ v_pc' = "duplicates"
    /\ UNCHANGED <<data_columns, data_rows, date_cols, id_cols, duplicates,
                   report_complete, v_ret>>
    /\ UNCHANGED <<cleanVars, fileVars>>

\* line 127 raises (no directory data/processed); lines 149-151 catch it
OpenReportFails ==
    /\ v_pc = "open"
    /\ v_ret' = "False"
    /\ v_pc' = "returned"
    /\ UNCHANGED <<data_columns, data_rows, date_cols, id_cols, duplicates,
                   report, report_complete>>
    /\ UNCHANGED <<cleanVars, fileVars>>

\* lines 138-139 with duplicates assigned
WriteDuplicates ==
    /\ v_pc = "duplicates"
    /\ duplicates # <<>>
    /\ report' = report \o
          (IF duplicates[1] > 0 THEN <<"Duplicate observations">> ELSE <<>>)
    /\ v_pc' = "missing"
    /\ UNCHANGED <<data_columns, data_rows, date_cols, id_cols, duplicates,
                   report_complete, v_ret>>
    /\ UNCHANGED <<cleanVars, fileVars>>

\* line 138 with duplicates never assigned: reading it raises
\* UnboundLocalError, the with-block closes the file with what was written,
\* lines 149-151 catch the exception
ReadUnboundDuplicates ==
    /\ v_pc = "duplicates"
    /\ duplicates = <<>>
    /\ v_ret' = "False"
    /\ v_pc' = "returned"
    /\ UNCHANGED <<data_columns, data_rows, date_cols, id_cols, duplicates,
                   report, report_complete>>
    /\ UNCHANGED <<cleanVars, fileVars>>

\* lines 141-147: the list of variables with missing data; the file is
\* closed, the function returns True
WriteMissingAndReturn ==
    /\ v_pc = "missing"
    /\ report' = report \o <<"Variables with missing data">>
                        \o ColumnsWithMissing(data_rows, data_columns)
    /\ report_complete' = TRUE
    /\ v_ret' = "True"
    /\ v_pc' = "returned"
    /\ UNCHANGED <<data_columns, data_rows, date_cols, id_cols, duplicates>>
    /\ UNCHANGED <<cleanVars, fileVars>>

ValidNext ==
    \/ LoadOk
    \/ LoadFail
    \/ RequiredVariableCheck
    \/ DateValidation
    \/ ReturnValidation
    \/ IdentifierValidation
    \/ IdentifierValidationFails
    \/ PanelStructureValidation
    \/ PanelStructureSkipped
    \/ CompletenessSummary
    \/ WriteReportHead
    \/ OpenReportFails
    \/ WriteDuplicates
    \/ ReadUnboundDuplicates
    \/ WriteMissingAndReturn

SpecValid == ValidInit /\ [][ValidNext]_vars

(***************************************************************************)
(* Properties of clean_cusip                                               *)
(***************************************************************************)
\* The cleaned form as the properties state it: the raw string upper-cased,
\* stripped, with every character outside A-Z0-9 removed.
InAZ09(c) == c \in AZ09

ToUpperCase(c) ==
    CASE c = "a" -> "A" [] c = "b" -> "B" [] c = "c" -> "C" [] c = "d" -> "D"
      [] c = "e" -> "E" [] c = "f" -> "F" [] c = "g" -> "G" [] c = "h" -> "H"
      [] c = "i" -> "I" [] c = "j" -> "J" [] c = "k" -> "K" [] c = "l" -> "L"
      [] c = "m" -> "M" [] c = "n" -> "N" [] c = "o" -> "O" [] c = "p" -> "P"
      [] c = "q" -> "Q" [] c = "r" -> "R" [] c = "s" -> "S" [] c = "t" -> "T"
      [] c = "u" -> "U" [] c = "v" -> "V" [] c = "w" -> "W" [] c = "x" -> "X"
      [] c = "y" -> "Y" [] c = "z" -> "Z" [] OTHER -> c

CleanedForm(s) == SelectSeq([i \in DOMAIN s |-> ToUpperCase(s[i])], InAZ09)

IsCanonical(x) == Len(x) = 8 /\ \A i \in 1..8 : x[i] \in AZ09

\* C1: whatever the input (absent, empty, or a string of letters, digits,
\* whitespace and punctuation), clean_cusip returns the absent value or a
\* string of exactly 8 characters, each in A-Z or 0-9.
C1_CanonicalOrAbsent ==
    pc # "start" => (result = None \/ IsCanonical(result))

C1_Witness ==
    /\ pc = "returned"
    /\ raw # None
    /\ \E i \in DOMAIN raw : raw[i] \in {" ", "-"}
    /\ \E i \in DOMAIN raw : raw[i] = "b"
    /\ result # None
    /\ IsCanonical(result)

\* C2: clean_cusip returns absent for an absent input, for the empty string
\* and for every raw string whose cleaned form is shorter than 6, strings of
\* whitespace only or punctuation only included.
C2_ShortIsAbsent ==
    (pc # "start" /\ (raw = None \/ raw = <<>> \/ Len(CleanedForm(raw)) < 6))
        => result = None

C2_Witness ==
    /\ pc = "returned"
    /\ raw # None
    /\ Len(raw) >= 6
    /\ Len(CleanedForm(raw)) = 5
    /\ result = None

\* C3: for a raw string whose cleaned form c has length n in {6,7,8}, the
\* result has length 8, starts with c and ends with 8-n characters '0'.
C3_PaddedRight ==
    (pc # "start" /\ raw # None /\ Len(CleanedForm(raw)) \in {6, 7, 8})
        => /\ result # None
           /\ Len(result) = 8
           /\ SubSeq(result, 1, Len(CleanedForm(raw))) = CleanedForm(raw)
           /\ \A i \in (Len(CleanedForm(raw)) + 1)..8 : result[i] = "0"

C3_Witness ==
    /\ pc = "returned"
    /\ raw # None
    /\ Len(raw) = 7
    /\ Len(CleanedForm(raw)) = 6
    /\ CleanedForm(raw)[6] # "0"
    /\ result = CleanedForm(raw) \o <<"0", "0">>

\* C4: for a raw string whose cleaned form has length 9 or more, the result
\* is the first 8 characters of the cleaned form: the 9th and later
\* characters do not matter, and length 9 is treated like any greater length.
C4_Truncated ==
    (pc # "start" /\ raw # None /\ Len(CleanedForm(raw)) >= 9)
        => result = SubSeq(CleanedForm(raw), 1, 8)

C4_Witness ==
    /\ pc = "returned"
    /\ raw # None
    /\ Len(CleanedForm(raw)) = 10
    /\ CleanedForm(raw)[9] # CleanedForm(raw)[1]
    /\ CleanedForm(raw)[10] # CleanedForm(raw)[2]
    /\ result = SubSeq(CleanedForm(raw), 1, 8)

\* C5: idempotence: when clean_cusip(s) is not absent,
\* clean_cusip(clean_cusip(s)) = clean_cusip(s).
C5_Idempotent ==
    pc = "reapplied" => again = result

C5_Witness ==
    /\ pc = "reapplied"
    /\ raw # result
    /\ Len(CleanedForm(raw)) = 7
    /\ again = result

\* C6: insensitivity: two raw strings that differ only in the case of a
\* letter, in leading or trailing whitespace, or in a character outside
\* A-Z0-9 in the interior get the same result, absent included.
C6_Insensitive ==
    pc = "compared" => result2 = result

C6_Witness ==
    /\ pc = "compared"
    /\ other # raw
    /\ Len(other) = Len(raw)
    /\ result # None
    /\ result2 = result

(***************************************************************************)
(* Properties of clean_cusip_file                                          *)
(***************************************************************************)
\* the filtering of lines 41-43 is done
Filtered == f_pc \in {"print", "to_csv"} \/ out_written

\* the canonical identifier of the k-th record of the input file
Canon(k) == clean_cusip(file_rows[k]["cusip"])

\* the records the deduplication is to retain: a canonical identifier that is
\* not absent and that no earlier record has
ToRetain ==
    {k \in DOMAIN file_rows :
        /\ Canon(k) # None
        /\ \A j \in 1..(k - 1) : Canon(j) # Canon(k)}

\* C7: of an input that has the field 'cusip', the records retained are
\* exactly those whose canonical identifier is not absent and is not that of
\* an earlier record; they keep their relative order, so no two retained
\* records share a canonical identifier and none has an absent one.
C7_RetainedFirstOccurrences ==
    ("cusip" \in file_columns /\ Filtered)
        => /\ {df[i].index + 1 : i \in DOMAIN df} = ToRetain
           /\ \A i, j \in DOMAIN df : i < j => df[i].index < df[j].index
           /\ \A i \in DOMAIN df : df[i].rec["cusip_clean"] = Canon(df[i].index + 1)
           /\ \A i \in DOMAIN df : df[i].rec["cusip_clean"] # None
           /\ \A i, j \in DOMAIN df :
                 i # j => df[i].rec["cusip_clean"] # df[j].rec["cusip_clean"]

\* the example: AB12340, "ab1234 0", ZZ999999 leave the first and the third
C7_Witness ==
    /\ out_written
    /\ Len(file_rows) = 3
    /\ file_rows[1]["cusip"] = <<"A","B","1","2","3","4","0">>
    /\ file_rows[2]["cusip"] = <<"a","b","1","2","3","4"," ","0">>
    /\ file_rows[3]["cusip"] = <<"Z","Z","9","9","9","9","9","9">>
    /\ Len(out_rows) = 2
    /\ df[1].index = 0
    /\ df[2].index = 2

\* the header was read and has no column 'cusip'
MissingCusipColumn == f_pc \notin {"start"} /\ columns # {} /\ "cusip" \notin columns

\* C8 as stated: on a dataset without the field 'cusip', clean_cusip_file
\* raises a SchemaError and writes no output file.
C8_RaisesSchemaError ==
    (MissingCusipColumn /\ f_pc \in {"returned", "exited"})
        => (propagated = "SchemaError" /\ ~out_written)

\* C8 amended: on a dataset without the field 'cusip', clean_cusip_file
\* raises nothing; it prints a message and returns False, the script exits
\* with status 1, and the write step is never reached: no output is written.
C8_ReturnsFalseWritesNothing ==
    MissingCusipColumn
        => /\ ~out_written
           /\ f_pc \in {"check", "returned", "exited"}
           /\ propagated = "none"
           /\ f_pc \in {"returned", "exited"} => ret = "False"
           /\ f_pc = "exited" => exit_status = 1

C8_Witness ==
    /\ f_pc = "exited"
    /\ file_columns = {"name", "CUSIP"}
    /\ Len(file_rows) = 2
    /\ columns = file_columns
    /\ ret = "False"
    /\ exit_status = 1
    /\ ~out_written

\* the number the message of line 45 reports
PrintedCounts == {printed[m][2] : m \in {n \in DOMAIN printed : Len(printed[n]) = 2}}

\* C9 as stated: every record written is a retained input record with all
\* its original fields unchanged plus exactly one added field 'cusip_clean'
\* = clean_cusip of its raw 'cusip'; no other field is added, removed or
\* modified; the printed count is the number of records written.
C9_AllOriginalFieldsUnchanged ==
    out_written
        => /\ out_columns = file_columns \cup {"cusip_clean"}
           /\ Len(out_rows) = Len(df)
           /\ \A i \in DOMAIN out_rows :
                 /\ DOMAIN out_rows[i] = out_columns
                 /\ df[i].index + 1 \in ToRetain
                 /\ \A c \in file_columns :
                       out_rows[i][c] = file_rows[df[i].index + 1][c]
                 /\ out_rows[i]["cusip_clean"] = Canon(df[i].index + 1)
           /\ PrintedCounts = {Len(out_rows)}

\* C9 amended: every record written is a retained input record with every
\* original field other than 'cusip_clean' unchanged (the raw 'cusip'
\* included) and with the field 'cusip_clean' = clean_cusip of its raw
\* 'cusip'; that field is added when the input has none of that name and
\* overwritten when it has one; no other field is added, removed or modified;
\* the printed count is the number of records written.
C9_OtherFieldsUnchanged ==
    out_written
        => /\ out_columns = file_columns \cup {"cusip_clean"}
           /\ Len(out_rows) = Len(df)
           /\ \A i \in DOMAIN out_rows :
                 /\ DOMAIN out_rows[i] = out_columns
                 /\ df[i].index + 1 \in ToRetain
                 /\ \A c \in file_columns \ {"cusip_clean"} :
                       out_rows[i][c] = file_rows[df[i].index + 1][c]
                 /\ out_rows[i]["cusip_clean"] = Canon(df[i].index + 1)
           /\ PrintedCounts = {Len(out_rows)}

C9_Witness ==
    /\ out_written
    /\ Len(file_rows) = 3
    /\ Len(out_rows) = 2
    /\ file_columns = {"name", "cusip"}
    /\ out_columns = {"name", "cusip", "cusip_clean"}
    /\ out_rows[1]["name"] # out_rows[2]["name"]
    /\ out_rows[2]["cusip"] # out_rows[2]["cusip_clean"]
    /\ PrintedCounts = {2}

(***************************************************************************)
(* Properties of validate_event_study_data                                 *)
(***************************************************************************)
\* C10: for a dataset that loads, validate_event_study_data runs all its
\* checks, writes the complete report and returns True; in particular, when
\* the panel-structure check is skipped for want of an identifier or a date
\* column, the writing of the report still completes: the function never
\* returns False leaving a partly written report.
C10_ReportCompletes ==
    (v_pc = "returned" /\ report # <<>>)
        => (v_ret = "True" /\ report_complete)

====
